---- MODULE Spec2Model ----
(***************************************************************************)
(* Model of xr_examples/track_buttons.py: the static binding tables, the   *)
(* creation of the seven actions, the per-profile binding suggestion, the  *)
(* frame loop that polls and prints the action states, and the teardown of *)
(* the context.                                                            *)
(*                                                                         *)
(* A path string "/user/hand/left/input/select/click" is modelled as the   *)
(* sequence of its segments, so that "is under /user/hand/left" is a       *)
(* prefix test.  A float is modelled as an integer number of thousandths.  *)
(***************************************************************************)
EXTENDS Integers, Sequences, FiniteSets, TLC

\* Number of frames the runtime's frame loop may yield before it ends by itself.
MaxFrames == 12

\* The constant of `if frame_index >= 10: break`.
FrameLimit == 10

(***************************************************************************)
(* The static tables, as the literals of the source build them.            *)
(***************************************************************************)
PROFILES_LITERAL ==
    [ khr    |-> <<"interaction_profiles", "khr", "simple_controller">>,
      index  |-> <<"interaction_profiles", "valve", "index_controller">>,
      oculus |-> <<"interaction_profiles", "oculus", "touch_controller">>,
      vive   |-> <<"interaction_profiles", "htc", "vive_controller">>,
      wmr    |-> <<"interaction_profiles", "microsoft", "motion_controller">> ]

TRIGGER_PATHS_LITERAL ==
    [ khr    |-> << <<"user", "hand", "left", "input", "select", "click">>,
                    <<"user", "hand", "right", "input", "select", "click">> >>,
      index  |-> << <<"user", "hand", "left", "input", "trigger", "value">>,
                    <<"user", "hand", "right", "input", "trigger", "value">> >>,
      oculus |-> << <<"user", "hand", "left", "input", "trigger", "value">>,
                    <<"user", "hand", "right", "input", "trigger", "value">> >>,
      vive   |-> << <<"user", "hand", "left", "input", "trigger", "value">>,
                    <<"user", "hand", "right", "input", "trigger", "value">> >>,
      wmr    |-> << <<"user", "hand", "left", "input", "trigger", "value">>,
                    <<"user", "hand", "right", "input", "trigger", "value">> >> ]

SQUEEZE_PATHS_LITERAL ==
    [ index  |-> << <<"user", "hand", "left", "input", "squeeze", "force">>,
                    <<"user", "hand", "right", "input", "squeeze", "force">> >>,
      oculus |-> << <<"user", "hand", "left", "input", "squeeze", "value">>,
                    <<"user", "hand", "right", "input", "squeeze", "value">> >>,
      vive   |-> << <<"user", "hand", "left", "input", "squeeze", "click">>,
                    <<"user", "hand", "right", "input", "squeeze", "click">> >>,
      wmr    |-> << <<"user", "hand", "left", "input", "squeeze", "click">>,
                    <<"user", "hand", "right", "input", "squeeze", "click">> >> ]

JOYSTICK_PATHS_LITERAL ==
    [ index  |-> << <<"user", "hand", "left", "input", "thumbstick">>,
                    <<"user", "hand", "right", "input", "thumbstick">> >>,
      oculus |-> << <<"user", "hand", "left", "input", "thumbstick">>,
                    <<"user", "hand", "right", "input", "thumbstick">> >>,
      vive   |-> << <<"user", "hand", "left", "input", "trackpad">>,
                    <<"user", "hand", "right", "input", "trackpad">> >>,
      wmr    |-> << <<"user", "hand", "left", "input", "thumbstick">>,
                    <<"user", "hand", "right", "input", "thumbstick">> >> ]

\* A plausible slip in the oculus row: the right hand's component copied to the left.
BUTTON_A_PATHS_COPIED ==
    [ index  |-> << <<"user", "hand", "left", "input", "a", "click">>,
                    <<"user", "hand", "right", "input", "a", "click">> >>,
      oculus |-> << <<"user", "hand", "left", "input", "a", "click">>,
                    <<"user", "hand", "right", "input", "a", "click">> >> ]

BUTTON_A_PATHS_LITERAL ==
    [ index  |-> << <<"user", "hand", "left", "input", "a", "click">>,
                    <<"user", "hand", "right", "input", "a", "click">> >>,
      oculus |-> << <<"user", "hand", "left", "input", "x", "click">>,
                    <<"user", "hand", "right", "input", "a", "click">> >> ]

BUTTON_B_PATHS_LITERAL ==
    [ index  |-> << <<"user", "hand", "left", "input", "b", "click">>,
                    <<"user", "hand", "right", "input", "b", "click">> >>,
      oculus |-> << <<"user", "hand", "left", "input", "y", "click">>,
                    <<"user", "hand", "right", "input", "b", "click">> >> ]

BUTTON_A_TOUCH_PATHS_LITERAL ==
    [ index  |-> << <<"user", "hand", "left", "input", "a", "touch">>,
                    <<"user", "hand", "right", "input", "a", "touch">> >>,
      oculus |-> << <<"user", "hand", "left", "input", "x", "touch">>,
                    <<"user", "hand", "right", "input", "a", "touch">> >> ]

BUTTON_B_TOUCH_PATHS_LITERAL ==
    [ index  |-> << <<"user", "hand", "left", "input", "b", "touch">>,
                    <<"user", "hand", "right", "input", "b", "touch">> >>,
      oculus |-> << <<"user", "hand", "left", "input", "y", "touch">>,
                    <<"user", "hand", "right", "input", "b", "touch">> >> ]

\* The module's globals after the table literals have been evaluated.
LoadedTables ==
    [ PROFILES             |-> PROFILES_LITERAL,
      TRIGGER_PATHS        |-> TRIGGER_PATHS_LITERAL,
      SQUEEZE_PATHS        |-> SQUEEZE_PATHS_LITERAL,
      JOYSTICK_PATHS       |-> JOYSTICK_PATHS_LITERAL,
      BUTTON_A_PATHS       |-> BUTTON_A_PATHS_LITERAL,
      BUTTON_B_PATHS       |-> BUTTON_B_PATHS_LITERAL,
      BUTTON_A_TOUCH_PATHS |-> BUTTON_A_TOUCH_PATHS_LITERAL,
      BUTTON_B_TOUCH_PATHS |-> BUTTON_B_TOUCH_PATHS_LITERAL ]

\* The names of the seven component tables, in the order main lists them.
PathTableNames ==
    << "TRIGGER_PATHS", "SQUEEZE_PATHS", "JOYSTICK_PATHS", "BUTTON_A_PATHS",
       "BUTTON_B_PATHS", "BUTTON_A_TOUCH_PATHS", "BUTTON_B_TOUCH_PATHS" >>

\* for profile in ["khr", "index", "oculus", "vive", "wmr"]
ProfileOrder == <<"khr", "index", "oculus", "vive", "wmr">>

\* The dict literal of main: name, action type, in creation order.
ActionDecls ==
    << [name |-> "trigger",        type |-> "FLOAT_INPUT"],
       [name |-> "squeeze",        type |-> "FLOAT_INPUT"],
       [name |-> "joystick",       type |-> "VECTOR2F_INPUT"],
       [name |-> "button_a",       type |-> "BOOLEAN_INPUT"],
       [name |-> "button_b",       type |-> "BOOLEAN_INPUT"],
       [name |-> "button_a_touch", type |-> "BOOLEAN_INPUT"],
       [name |-> "button_b_touch", type |-> "BOOLEAN_INPUT"] >>

\* The table main pairs with each action in the list it passes to suggest_bindings.
TableOfAction ==
    [ trigger        |-> "TRIGGER_PATHS",
      squeeze        |-> "SQUEEZE_PATHS",
      joystick       |-> "JOYSTICK_PATHS",
      button_a       |-> "BUTTON_A_PATHS",
      button_b       |-> "BUTTON_B_PATHS",
      button_a_touch |-> "BUTTON_A_TOUCH_PATHS",
      button_b_touch |-> "BUTTON_B_TOUCH_PATHS" ]

\* ["LEFT", "RIGHT"], indexed by hand_idx + 1.
HandNames == <<"LEFT", "RIGHT">>

\* The session states a yielded frame can find the context in.
SessionStates == {"SYNCHRONIZED", "VISIBLE", "FOCUSED"}

VARIABLES
    tables,              \* the module globals holding the eight tables
    pc,                  \* position in the main program
    actions,             \* the actions dict: sequence of [name, type] in insertion order
    profile_idx,         \* profiles already handled by the suggestion loop
    suggested,           \* the runtime's log of suggest_interaction_profile_bindings calls
    frames_yielded,      \* frames the frame loop has yielded so far
    frame_index,         \* enumerate's index of the current frame
    session_state,       \* context.session_state in the current frame
    session_was_focused,
    hand_idx,            \* 0-based, as in the source
    states,              \* the states dict being built: sequence of [name, value]
    printed,             \* the line most recently written by print("   ".join(parts))
    last_query,          \* the call get_state made last: [name, created, passed, query]
    sync_calls,          \* sync_actions calls in the current frame
    query_calls,         \* runtime state queries in the current frame
    frame_lines,         \* hand names of the state lines printed in the current frame
    frames_handled,      \* frames whose body ran to the end of the sleep
    any_sync,            \* a sync_actions call was made during the run
    any_line,            \* a state line was printed during the run
    focused_seen,        \* some handled frame found the session FOCUSED
    warning_printed,
    raised,              \* an exception is propagating out of the with block
    loop_ended,          \* control has left the for loop (break, exhaustion or exception)
    torn_down,           \* ContextObject.__exit__ has run
    bool32_as            \* Python type the binding gives an XrBool32 field: "bool" or "int"

vars ==
    << tables, pc, actions, profile_idx, suggested, frames_yielded, frame_index,
       session_state, session_was_focused, hand_idx, states, printed, last_query,
       sync_calls, query_calls, frame_lines, frames_handled, any_sync, any_line,
       focused_seen, warning_printed, raised, loop_ended, torn_down, bool32_as >>


(***************************************************************************)
(* Helpers of the setup phase.                                             *)
(***************************************************************************)
\* Python's None, and a dict's .get for a missing key.
None == [py |-> "NoneType", v |-> <<>>]

\* d.get(key): the entry, or a falsy nothing (None; the empty tuple stands for it,
\* `if paths:` treating both alike).
Get(d, key) == IF key \in DOMAIN d THEN d[key] ELSE <<>>

\* xr.string_to_path: the runtime interns the string and hands back a path atom.
string_to_path(path) == [xr_path |-> path]

\* The list main builds for one profile: (action, TABLE.get(profile)) per action.
ActionPathPairs(t, decls, profile) ==
    [ i \in 1..Len(decls) |->
        [ action |-> decls[i].name,
          paths  |-> Get(t[TableOfAction[decls[i].name]], profile) ] ]

\* One ActionSuggestedBinding per path of a pair.
RECURSIVE BindingsOfPaths(_, _)
BindingsOfPaths(action, paths) ==
    IF paths = <<>> THEN <<>>
    ELSE <<[action |-> action, binding |-> string_to_path(Head(paths))]>>
         \o BindingsOfPaths(action, Tail(paths))

\* A plausible slip: only the first (left) path of each pair is bound.
RECURSIVE suggest_bindings_left_only(_)
suggest_bindings_left_only(action_path_pairs) ==
    IF action_path_pairs = <<>> THEN <<>>
    ELSE LET pair == Head(action_path_pairs)
         IN (IF pair.paths # <<>>
             THEN BindingsOfPaths(pair.action, <<pair.paths[1]>>)
             ELSE <<>>)
            \o suggest_bindings_left_only(Tail(action_path_pairs))

\* suggest_bindings, up to the runtime call: the bindings_list it accumulates.
RECURSIVE suggest_bindings(_)
suggest_bindings(action_path_pairs) ==
    IF action_path_pairs = <<>> THEN <<>>
    ELSE LET pair == Head(action_path_pairs)
         IN (IF pair.paths # <<>>
             THEN BindingsOfPaths(pair.action, pair.paths)
             ELSE <<>>)
            \o suggest_bindings(Tail(action_path_pairs))

(***************************************************************************)
(* Helpers of the polling loop.                                            *)
(***************************************************************************)
\* A plausible slip: only "trigger" is recognised as a float action.
ActionTypeForNameTriggerOnly(name) ==
    IF name \in {"trigger"} THEN "FLOAT_INPUT"
    ELSE IF name = "joystick" THEN "VECTOR2F_INPUT"
    ELSE "BOOLEAN_INPUT"

\* The conditional expression of the frame loop that derives the type from the name.
ActionTypeForName(name) ==
    IF name \in {"trigger", "squeeze"} THEN "FLOAT_INPUT"
    ELSE IF name = "joystick" THEN "VECTOR2F_INPUT"
    ELSE "BOOLEAN_INPUT"

\* The runtime query get_state's if/elif chain issues for an action type
\* ("none": no branch matches and the function falls through).
QueryFor(action_type) ==
    IF action_type = "FLOAT_INPUT" THEN "get_action_state_float"
    ELSE IF action_type = "BOOLEAN_INPUT" THEN "get_action_state_boolean"
    ELSE IF action_type = "VECTOR2F_INPUT" THEN "get_action_state_vector2f"
    ELSE "none"

\* The action type each query function serves.
TypeServedBy(query) ==
    IF query = "get_action_state_float" THEN "FLOAT_INPUT"
    ELSE IF query = "get_action_state_boolean" THEN "BOOLEAN_INPUT"
    ELSE IF query = "get_action_state_vector2f" THEN "VECTOR2F_INPUT"
    ELSE "none"

\* Values an active action can report: floats in thousandths (dyadic, so that
\* the decimal formats below are exact), an XrBool32 as the Python type the
\* binding gives it, a vector as a pair of floats.
ActiveValues(query, b32) ==
    IF query = "get_action_state_float"
    THEN {[py |-> "float", v |-> <<x>>] : x \in {625}}
    ELSE IF query = "get_action_state_boolean"
    THEN {[py |-> b32, v |-> <<b>>] : b \in {0, 1}}
    ELSE {[py |-> "tuple", v |-> xy] : xy \in {<<125, -1000>>}}

ErrorReply == [error |-> TRUE, is_active |-> FALSE, current_state |-> None]

\* What the runtime can answer to a state query: an error, an inactive state or
\* an active state with a value; a query of the wrong type for the action is an
\* error (XR_ERROR_ACTION_TYPE_MISMATCH).
RuntimeReplies(created_type, query, b32) ==
    IF TypeServedBy(query) # created_type THEN {ErrorReply}
    ELSE {ErrorReply}
         \cup {[error |-> FALSE, is_active |-> FALSE, current_state |-> val]
                 : val \in ActiveValues(query, b32)}
         \cup {[error |-> FALSE, is_active |-> TRUE, current_state |-> val]
                 : val \in ActiveValues(query, b32)}

\* A plausible slip: no try/except, the error leaves get_state.
get_state_unguarded(action_type, reply) ==
    IF QueryFor(action_type) = "none" THEN [raises |-> FALSE, value |-> None]
    ELSE IF reply.error THEN [raises |-> TRUE, value |-> None]
    ELSE IF reply.is_active THEN [raises |-> FALSE, value |-> reply.current_state]
    ELSE [raises |-> FALSE, value |-> None]

\* get_state: the value returned (None for an error, an inactive state or a type
\* no branch handles), and whether an exception leaves the function.
get_state(action_type, reply) ==
    IF QueryFor(action_type) = "none" THEN [raises |-> FALSE, value |-> None]
    ELSE IF reply.error THEN [raises |-> FALSE, value |-> None]
    ELSE IF reply.is_active THEN [raises |-> FALSE, value |-> reply.current_state]
    ELSE [raises |-> FALSE, value |-> None]

Abs(n) == IF n < 0 THEN -n ELSE n

Digits(n, width) ==
    IF width = 3 THEN ToString((n \div 100) % 10) \o ToString((n \div 10) % 10) \o ToString(n % 10)
    ELSE ToString((n \div 10) % 10) \o ToString(n % 10)

\* f"{x:.3f}" of x given in thousandths.
Fixed3(thousandths) ==
    (IF thousandths < 0 THEN "-" ELSE "")
    \o ToString(Abs(thousandths) \div 1000) \o "." \o Digits(Abs(thousandths) % 1000, 3)

\* Thousandths rounded to hundredths, a tie going to the even hundredth.
RoundHundredths(thousandths) ==
    LET q == thousandths \div 10
        r == thousandths % 10
    IN IF r < 5 THEN q
       ELSE IF r > 5 THEN q + 1
       ELSE IF q % 2 = 0 THEN q ELSE q + 1

\* f"{x:+.2f}" of x given in thousandths.
Signed2(thousandths) ==
    LET h == RoundHundredths(Abs(thousandths))
    IN (IF thousandths < 0 THEN "-" ELSE "+")
       \o ToString(h \div 100) \o "." \o Digits(h % 100, 2)

\* A Python number in thousandths: a float is held so, an int is whole units.
Thousandths(value) ==
    IF value.py = "float" THEN value.v[1] ELSE 1000 * value.v[1]

\* One iteration of the formatting loop: the entry appended to parts.  fmt names
\* the branch taken, text is the bracketed part that follows the name.
FormatEntry(name, value) ==
    IF value # None
    THEN IF value.py = "tuple"
         THEN [name |-> name, fmt |-> "pair",
               text |-> "[(" \o Signed2(value.v[1]) \o "," \o Signed2(value.v[2]) \o ")]"]
         ELSE IF value.py = "bool"
         THEN [name |-> name, fmt |-> "bool",
               text |-> IF value.v[1] = 1 THEN "[True]" ELSE "[False]"]
         ELSE [name |-> name, fmt |-> "float3", text |-> "[" \o Fixed3(Thousandths(value)) \o "]"]
    ELSE [name |-> name, fmt |-> "placeholder", text |-> "[---]"]

\* parts: the hand name (f"{hand_name:<6}"), then one entry per item of states.
FormatLine(hand_name, sts) ==
    [ hand    |-> hand_name,
      entries |-> [i \in 1..Len(sts) |-> FormatEntry(sts[i].name, sts[i].value)] ]

NoLine == [hand |-> "", entries |-> <<>>]
NoQuery == [name |-> "", created |-> "", passed |-> "", query |-> "", error |-> FALSE]


(***************************************************************************)
(* The program.                                                            *)
(***************************************************************************)
Init ==
    /\ tables = LoadedTables
    /\ pc = "create"
    /\ actions = <<>>
    /\ profile_idx = 0
    /\ suggested = <<>>
    /\ frames_yielded = 0
    /\ frame_index = 0
    /\ session_state = "UNKNOWN"
    /\ session_was_focused = FALSE
    /\ hand_idx = 0
    /\ states = <<>>
    /\ printed = NoLine
    /\ last_query = NoQuery
    /\ sync_calls = 0
    /\ query_calls = 0
    /\ frame_lines = <<>>
    /\ frames_handled = 0
    /\ any_sync = FALSE
    /\ any_line = FALSE
    /\ focused_seen = FALSE
    /\ warning_printed = FALSE
    /\ raised = "none"
    /\ loop_ended = FALSE
    /\ torn_down = FALSE
    /\ bool32_as \in {"bool", "int"}

\* A plausible slip: the suggestion phase starts one action early.
CreateActionOneShort ==
    /\ pc = "create"
    /\ Len(actions) < Len(ActionDecls)
    /\ \/ /\ actions' = Append(actions, ActionDecls[Len(actions) + 1])
          /\ pc' = IF Len(actions) + 2 >= Len(ActionDecls) THEN "suggest" ELSE "create"
          /\ UNCHANGED raised
       \/ /\ raised' = "create_action"
          /\ pc' = "exit"
          /\ UNCHANGED actions
    /\ UNCHANGED << tables, profile_idx, suggested, frames_yielded, frame_index,
                    session_state, session_was_focused, hand_idx, states, printed,
                    last_query, sync_calls, query_calls, frame_lines, frames_handled,
                    any_sync, any_line, focused_seen, warning_printed, loop_ended,
                    torn_down, bool32_as >>

\* One create_action call of the actions dict literal; the runtime may refuse it,
\* and the exception then leaves the with block.
CreateAction ==
    /\ pc = "create"
    /\ Len(actions) < Len(ActionDecls)
    /\ \/ /\ actions' = Append(actions, ActionDecls[Len(actions) + 1])
          /\ pc' = IF Len(actions) + 1 = Len(ActionDecls) THEN "suggest" ELSE "create"
          /\ UNCHANGED raised
       \/ /\ raised' = "create_action"
          /\ pc' = "exit"
          /\ UNCHANGED actions
    /\ UNCHANGED << tables, profile_idx, suggested, frames_yielded, frame_index,
                    session_state, session_was_focused, hand_idx, states, printed,
                    last_query, sync_calls, query_calls, frame_lines, frames_handled,
                    any_sync, any_line, focused_seen, warning_printed, loop_ended,
                    torn_down, bool32_as >>

\* The record handed to xr.suggest_interaction_profile_bindings.
SuggestCall(t, profile, bindings_list) ==
    [ interaction_profile |-> string_to_path(t.PROFILES[profile]),
      suggested_bindings  |-> bindings_list ]

\* A plausible slip: the tables are consumed (dict.pop) instead of read (dict.get).
SuggestProfilePopping ==
    /\ pc = "suggest"
    /\ profile_idx < Len(ProfileOrder)
    /\ LET profile == ProfileOrder[profile_idx + 1]
           bindings_list == suggest_bindings(ActionPathPairs(tables, actions, profile))
       IN /\ profile_idx' = profile_idx + 1
          /\ tables' = [ n \in DOMAIN tables |->
                           IF n = "PROFILES" THEN tables[n]
                           ELSE [ k \in DOMAIN tables[n] \ {profile} |-> tables[n][k] ] ]
          /\ IF bindings_list # <<>>
             THEN /\ suggested' = Append(suggested, SuggestCall(tables, profile, bindings_list))
                  /\ \/ /\ pc' = IF profile_idx + 1 = Len(ProfileOrder) THEN "header" ELSE "suggest"
                        /\ UNCHANGED raised
                     \/ /\ raised' = "suggest_bindings"
                        /\ pc' = "exit"
             ELSE /\ pc' = IF profile_idx + 1 = Len(ProfileOrder) THEN "header" ELSE "suggest"
                  /\ UNCHANGED << suggested, raised >>
    /\ UNCHANGED << actions, frames_yielded, frame_index,
                    session_state, session_was_focused, hand_idx, states, printed,
                    last_query, sync_calls, query_calls, frame_lines, frames_handled,
                    any_sync, any_line, focused_seen, warning_printed, loop_ended,
                    torn_down, bool32_as >>

\* One iteration of `for profile in [...]`: suggest_bindings for that profile.  The
\* runtime is called only for a non-empty bindings_list; it may refuse the call.
SuggestProfile ==
    /\ pc = "suggest"
    /\ profile_idx < Len(ProfileOrder)
    /\ LET profile == ProfileOrder[profile_idx + 1]
           bindings_list == suggest_bindings(ActionPathPairs(tables, actions, profile))
       IN /\ profile_idx' = profile_idx + 1
          /\ IF bindings_list # <<>>
             THEN /\ suggested' = Append(suggested, SuggestCall(tables, profile, bindings_list))
                  /\ \/ /\ pc' = IF profile_idx + 1 = Len(ProfileOrder) THEN "header" ELSE "suggest"
                        /\ UNCHANGED raised
                     \/ /\ raised' = "suggest_bindings"
                        /\ pc' = "exit"
             ELSE /\ pc' = IF profile_idx + 1 = Len(ProfileOrder) THEN "header" ELSE "suggest"
                  /\ UNCHANGED << suggested, raised >>
    /\ UNCHANGED << tables, actions, frames_yielded, frame_index,
                    session_state, session_was_focused, hand_idx, states, printed,
                    last_query, sync_calls, query_calls, frame_lines, frames_handled,
                    any_sync, any_line, focused_seen, warning_printed, loop_ended,
                    torn_down, bool32_as >>

\* The three header prints and `session_was_focused = False`.
PrintHeader ==
    /\ pc = "header"
    /\ session_was_focused' = FALSE
    /\ pc' = "loop"
    /\ UNCHANGED << tables, actions, profile_idx, suggested, frames_yielded,
                    frame_index, session_state, hand_idx, states, printed, last_query,
                    sync_calls, query_calls, frame_lines, frames_handled, any_sync,
                    any_line, focused_seen, warning_printed, raised, loop_ended,
                    torn_down, bool32_as >>

\* The frame loop yields the next frame (enumerate numbers it from 0), or raises.
NextFrame ==
    /\ pc = "loop"
    /\ frames_yielded < MaxFrames
    /\ \/ /\ \E s \in SessionStates :
                /\ session_state' = s
                /\ focused_seen' = (focused_seen \/ s = "FOCUSED")
          /\ frame_index' = frames_yielded
          /\ frames_yielded' = frames_yielded + 1
          /\ pc' = "body"
          /\ UNCHANGED << raised, loop_ended >>
       \/ /\ raised' = "frame_loop"
          /\ loop_ended' = TRUE
          /\ pc' = "exit"
          /\ UNCHANGED << session_state, focused_seen, frame_index, frames_yielded >>
    /\ UNCHANGED << tables, actions, profile_idx, suggested, session_was_focused,
                    hand_idx, states, printed, last_query, sync_calls, query_calls,
                    frame_lines, frames_handled, any_sync, any_line, warning_printed,
                    torn_down, bool32_as >>

\* The frame loop ends by itself (the session is over): the for loop is exhausted.
LoopExhausted ==
    /\ pc = "loop"
    /\ loop_ended' = TRUE
    /\ pc' = "warn"
    /\ UNCHANGED << tables, actions, profile_idx, suggested, frames_yielded,
                    frame_index, session_state, session_was_focused, hand_idx, states,
                    printed, last_query, sync_calls, query_calls, frame_lines,
                    frames_handled, any_sync, any_line, focused_seen, warning_printed,
                    raised, torn_down, bool32_as >>


\* A plausible slip: the focus test inverted.
FocusCheckInverted ==
    /\ pc = "body"
    /\ IF session_state # "FOCUSED"
       THEN /\ session_was_focused' = TRUE
            /\ pc' = "sync"
       ELSE /\ pc' = "sleep"
            /\ UNCHANGED session_was_focused
    /\ UNCHANGED << tables, actions, profile_idx, suggested, frames_yielded,
                    frame_index, session_state, hand_idx, states, printed, last_query,
                    sync_calls, query_calls, frame_lines, frames_handled, any_sync,
                    any_line, focused_seen, warning_printed, raised, loop_ended,
                    torn_down, bool32_as >>

\* `if context.session_state == xr.SessionState.FOCUSED:` and the flag it sets.
FocusCheck ==
    /\ pc = "body"
    /\ IF session_state = "FOCUSED"
       THEN /\ session_was_focused' = TRUE
            /\ pc' = "sync"
       ELSE /\ pc' = "sleep"
            /\ UNCHANGED session_was_focused
    /\ UNCHANGED << tables, actions, profile_idx, suggested, frames_yielded,
                    frame_index, session_state, hand_idx, states, printed, last_query,
                    sync_calls, query_calls, frame_lines, frames_handled, any_sync,
                    any_line, focused_seen, warning_printed, raised, loop_ended,
                    torn_down, bool32_as >>

\* xr.sync_actions; its error is not caught and leaves the loop and the with block.
\* On success the hand loop starts with the left hand.
SyncActions ==
    /\ pc = "sync"
    /\ sync_calls' = sync_calls + 1
    /\ any_sync' = TRUE
    /\ \/ /\ hand_idx' = 0
          /\ states' = <<>>
          /\ pc' = "poll"
          /\ UNCHANGED << raised, loop_ended >>
       \/ /\ raised' = "sync_actions"
          /\ loop_ended' = TRUE
          /\ pc' = "exit"
          /\ UNCHANGED << hand_idx, states >>
    /\ UNCHANGED << tables, actions, profile_idx, suggested, frames_yielded,
                    frame_index, session_state, session_was_focused, printed,
                    last_query, query_calls, frame_lines, frames_handled, any_line,
                    focused_seen, warning_printed, torn_down, bool32_as >>

\* One item of the states comprehension: get_state for the next action of the
\* dict, with the type derived from its name, for the current hand.
GetState ==
    /\ pc = "poll"
    /\ Len(states) < Len(actions)
    /\ LET action == actions[Len(states) + 1]
           action_type == ActionTypeForName(action.name)
           query == QueryFor(action_type)
       IN \E reply \in RuntimeReplies(action.type, query, bool32_as) :
            LET result == get_state(action_type, reply)
            IN /\ last_query' = [ name |-> action.name, created |-> action.type,
                                  passed |-> action_type, query |-> query,
                                  error |-> (query # "none" /\ reply.error) ]
               /\ query_calls' = IF query = "none" THEN query_calls ELSE query_calls + 1
               /\ IF result.raises
                  THEN /\ raised' = "get_state"
                       /\ loop_ended' = TRUE
                       /\ pc' = "exit"
                       /\ UNCHANGED states
                  ELSE /\ states' = Append(states, [name |-> action.name, value |-> result.value])
                       /\ UNCHANGED << raised, loop_ended, pc >>
    /\ UNCHANGED << tables, actions, profile_idx, suggested, frames_yielded,
                    frame_index, session_state, session_was_focused, hand_idx, printed,
                    sync_calls, frame_lines, frames_handled, any_sync, any_line,
                    focused_seen, warning_printed, torn_down, bool32_as >>

\* The formatting loop over states and print("   ".join(parts)).
PrintLine ==
    /\ pc = "poll"
    /\ Len(states) = Len(actions)
    /\ printed' = FormatLine(HandNames[hand_idx + 1], states)
    /\ frame_lines' = Append(frame_lines, HandNames[hand_idx + 1])
    /\ any_line' = TRUE
    /\ pc' = "printed"
    /\ UNCHANGED << tables, actions, profile_idx, suggested, frames_yielded,
                    frame_index, session_state, session_was_focused, hand_idx, states,
                    last_query, sync_calls, query_calls, frames_handled, any_sync,
                    focused_seen, warning_printed, raised, loop_ended, torn_down,
                    bool32_as >>

\* The hand loop advances: the right hand after the left, the sleep after the right.
\* (The line has scrolled by; states and parts are rebuilt before they are read.)
NextHand ==
    /\ pc = "printed"
    /\ IF hand_idx + 1 < Len(HandNames)
       THEN /\ hand_idx' = hand_idx + 1
            /\ pc' = "poll"
       ELSE /\ pc' = "sleep"
            /\ UNCHANGED hand_idx
    /\ states' = <<>>
    /\ printed' = NoLine
    /\ last_query' = NoQuery
    /\ UNCHANGED << tables, actions, profile_idx, suggested, frames_yielded,
                    frame_index, session_state, session_was_focused, sync_calls,
                    query_calls, frame_lines, frames_handled, any_sync, any_line,
                    focused_seen, warning_printed, raised, loop_ended, torn_down,
                    bool32_as >>

\* time.sleep(0.5), the frame-count test with its break, and print("").  The
\* frame is over: its counts of calls and lines start again from nothing.
Sleep ==
    /\ pc = "sleep"
    /\ frames_handled' = frames_handled + 1
    /\ IF frame_index >= FrameLimit
       THEN /\ loop_ended' = TRUE
            /\ pc' = "warn"
       ELSE /\ pc' = "loop"
            /\ UNCHANGED loop_ended
    /\ sync_calls' = 0
    /\ query_calls' = 0
    /\ frame_lines' = <<>>
    /\ UNCHANGED << tables, actions, profile_idx, suggested, frames_yielded,
                    frame_index, session_state, session_was_focused, hand_idx, states,
                    printed, last_query, any_sync, any_line, focused_seen,
                    warning_printed, raised, torn_down, bool32_as >>

\* A plausible slip: the test of the flag inverted.
WarnInverted ==
    /\ pc = "warn"
    /\ warning_printed' = session_was_focused
    /\ pc' = "exit"
    /\ UNCHANGED << tables, actions, profile_idx, suggested, frames_yielded,
                    frame_index, session_state, session_was_focused, hand_idx, states,
                    printed, last_query, sync_calls, query_calls, frame_lines,
                    frames_handled, any_sync, any_line, focused_seen, raised,
                    loop_ended, torn_down, bool32_as >>

\* `if not session_was_focused: print(warning)` and the closing rule.
Warn ==
    /\ pc = "warn"
    /\ warning_printed' = ~session_was_focused
    /\ pc' = "exit"
    /\ UNCHANGED << tables, actions, profile_idx, suggested, frames_yielded,
                    frame_index, session_state, session_was_focused, hand_idx, states,
                    printed, last_query, sync_calls, query_calls, frame_lines,
                    frames_handled, any_sync, any_line, focused_seen, raised,
                    loop_ended, torn_down, bool32_as >>

\* The with statement's exit: the context is torn down, on a normal end and on
\* an exception alike.
Teardown ==
    /\ pc = "exit"
    /\ torn_down' = TRUE
    /\ pc' = "done"
    /\ UNCHANGED << tables, actions, profile_idx, suggested, frames_yielded,
                    frame_index, session_state, session_was_focused, hand_idx, states,
                    printed, last_query, sync_calls, query_calls, frame_lines,
                    frames_handled, any_sync, any_line, focused_seen, warning_printed,
                    raised, loop_ended, bool32_as >>

Next ==
    \/ CreateAction
    \/ SuggestProfile
    \/ PrintHeader
    \/ NextFrame
    \/ LoopExhausted
    \/ FocusCheck
    \/ SyncActions
    \/ GetState
    \/ PrintLine
    \/ NextHand
    \/ Sleep
    \/ Warn
    \/ Teardown

Spec == Init /\ [][Next]_vars


(***************************************************************************)
(* Vocabulary of the properties.                                           *)
(***************************************************************************)
\* The seven action names, in the order of the actions dict.
SevenActions ==
    << "trigger", "squeeze", "joystick", "button_a", "button_b",
       "button_a_touch", "button_b_touch" >>

IsPrefix(p, q) == Len(p) <= Len(q) /\ \A i \in 1..Len(p) : p[i] = q[i]

\* The input components the OpenXR specification (6.4, interaction profile
\* paths) declares for each profile and hand, a parent path of a two-axis
\* component (thumbstick, trackpad) included.
DeclaredComponents(profile_path, hand) ==
    IF profile_path = <<"interaction_profiles", "khr", "simple_controller">>
    THEN { <<"select", "click">>, <<"menu", "click">>, <<"grip", "pose">>, <<"aim", "pose">> }
    ELSE IF profile_path = <<"interaction_profiles", "valve", "index_controller">>
    THEN { <<"system", "click">>, <<"system", "touch">>, <<"a", "click">>, <<"a", "touch">>,
           <<"b", "click">>, <<"b", "touch">>, <<"squeeze", "value">>, <<"squeeze", "force">>,
           <<"trigger", "click">>, <<"trigger", "value">>, <<"trigger", "touch">>,
           <<"thumbstick">>, <<"thumbstick", "x">>, <<"thumbstick", "y">>,
           <<"thumbstick", "click">>, <<"thumbstick", "touch">>,
           <<"trackpad">>, <<"trackpad", "x">>, <<"trackpad", "y">>,
           <<"trackpad", "force">>, <<"trackpad", "touch">>,
           <<"grip", "pose">>, <<"aim", "pose">> }
    ELSE IF profile_path = <<"interaction_profiles", "oculus", "touch_controller">>
    THEN { <<"squeeze", "value">>, <<"trigger", "value">>, <<"trigger", "touch">>,
           <<"thumbstick">>, <<"thumbstick", "x">>, <<"thumbstick", "y">>,
           <<"thumbstick", "click">>, <<"thumbstick", "touch">>, <<"thumbrest", "touch">>,
           <<"grip", "pose">>, <<"aim", "pose">> }
         \cup (IF hand = "left"
               THEN { <<"x", "click">>, <<"x", "touch">>, <<"y", "click">>, <<"y", "touch">>,
                      <<"menu", "click">> }
               ELSE { <<"a", "click">>, <<"a", "touch">>, <<"b", "click">>, <<"b", "touch">>,
                      <<"system", "click">> })
    ELSE IF profile_path = <<"interaction_profiles", "htc", "vive_controller">>
    THEN { <<"system", "click">>, <<"squeeze", "click">>, <<"menu", "click">>,
           <<"trigger", "click">>, <<"trigger", "value">>,
           <<"trackpad">>, <<"trackpad", "x">>, <<"trackpad", "y">>,
           <<"trackpad", "click">>, <<"trackpad", "touch">>,
           <<"grip", "pose">>, <<"aim", "pose">> }
    ELSE IF profile_path = <<"interaction_profiles", "microsoft", "motion_controller">>
    THEN { <<"menu", "click">>, <<"squeeze", "click">>, <<"trigger", "value">>,
           <<"thumbstick">>, <<"thumbstick", "x">>, <<"thumbstick", "y">>,
           <<"thumbstick", "click">>,
           <<"trackpad">>, <<"trackpad", "x">>, <<"trackpad", "y">>,
           <<"trackpad", "click">>, <<"trackpad", "touch">>,
           <<"grip", "pose">>, <<"aim", "pose">> }
    ELSE {}

\* path is an input path the profile declares for the hand.
InNamespace(profile_path, hand, path) ==
    /\ IsPrefix(<<"user", "hand", hand, "input">>, path)
    /\ SubSeq(path, 5, Len(path)) \in DeclaredComponents(profile_path, hand)

\* The hand a path lies under ("" when under neither).
HandOf(path) ==
    IF IsPrefix(<<"user", "hand", "left">>, path) THEN "left"
    ELSE IF IsPrefix(<<"user", "hand", "right">>, path) THEN "right"
    ELSE ""

\* The bindings the tables prescribe for a profile, read off the tables entry by
\* entry: the actions that have an entry, in action order, left before right.
PrescribedBindings(t, profile) ==
    LET HasEntry(name) == profile \in DOMAIN t[TableOfAction[name]]
        bound == SelectSeq(SevenActions, HasEntry)
    IN [ i \in 1..(2 * Len(bound)) |->
           [ action  |-> bound[(i + 1) \div 2],
             binding |-> [xr_path |-> t[TableOfAction[bound[(i + 1) \div 2]]][profile][2 - (i % 2)]] ] ]

InFrame == pc \in {"body", "sync", "poll", "printed", "sleep"}

(***************************************************************************)
(* The properties.                                                         *)
(***************************************************************************)
\* C1: the loop body is executed for exactly ten frames, never for an eleventh.
C1_TenFramesHandled ==
    /\ frames_handled <= 10
    /\ (pc = "body" => frame_index < 10)

\* C2: a state query that raises makes get_state return None instead of
\* propagating: the entry of that action is the placeholder "[---]", and the
\* polling goes on (the line is completed with all seven entries, no exception
\* from get_state ever leaves the loop).
C2_ErrorsBecomePlaceholders ==
    /\ raised # "get_state"
    /\ last_query.error =>
         /\ pc \in {"poll", "printed"}
         /\ states # <<>>
         /\ states[Len(states)].name = last_query.name
         /\ states[Len(states)].value = None
    /\ pc = "printed" =>
         /\ Len(states) = 7
         /\ Len(printed.entries) = 7
         /\ \A i \in 1..7 :
              states[i].value = None =>
                /\ printed.entries[i].name = states[i].name
                /\ printed.entries[i].fmt = "placeholder"
                /\ printed.entries[i].text = "[---]"
    /\ (pc = "sleep" /\ session_state = "FOCUSED") =>
         (query_calls = 14 /\ frame_lines = <<"LEFT", "RIGHT">>)

\* C2 witness: in a later frame, on the right hand, the last query raised and the
\* line was printed with the placeholder in its place.
C2_Witness ==
    /\ pc = "printed"
    /\ frame_index >= 1
    /\ hand_idx = 1
    /\ last_query.error
    /\ printed.entries[7].fmt = "placeholder"
    /\ printed.entries[1].fmt # "placeholder"

\* C3: every printed entry has the format of its action's type: pair for the
\* vector action, boolean format for the boolean actions, three-decimal float
\* format for the float actions, placeholder for an unavailable value.
C3_FormatMatchesType ==
    pc = "printed" =>
      \A i \in 1..Len(printed.entries) :
        LET type == actions[i].type
            value == states[i].value
            fmt == printed.entries[i].fmt
        IN /\ value = None => fmt = "placeholder"
           /\ (value # None /\ type = "VECTOR2F_INPUT") => fmt = "pair"
           /\ (value # None /\ type = "BOOLEAN_INPUT") => fmt = "bool"
           /\ (value # None /\ type = "FLOAT_INPUT") => fmt = "float3"

\* C4: every path of every table, and every path suggested to the runtime, is
\* an input path its profile declares for its hand; the first path of a pair is
\* under /user/hand/left and the second under /user/hand/right.
C4_PathsInProfileNamespace ==
    /\ \A n \in 1..Len(PathTableNames) :
         \A profile \in DOMAIN tables[PathTableNames[n]] :
           LET pair == tables[PathTableNames[n]][profile]
           IN /\ profile \in DOMAIN tables.PROFILES
              /\ Len(pair) = 2
              /\ IsPrefix(<<"user", "hand", "left">>, pair[1])
              /\ IsPrefix(<<"user", "hand", "right">>, pair[2])
              /\ InNamespace(tables.PROFILES[profile], "left", pair[1])
              /\ InNamespace(tables.PROFILES[profile], "right", pair[2])
    /\ \A c \in 1..Len(suggested) :
         \A b \in 1..Len(suggested[c].suggested_bindings) :
           LET path == suggested[c].suggested_bindings[b].binding.xr_path
           IN InNamespace(suggested[c].interaction_profile.xr_path, HandOf(path), path)

\* C4 witness: all five profiles have been suggested, the oculus one with the
\* left hand's x button.
C4_Witness ==
    /\ pc = "header"
    /\ Len(suggested) = 5
    /\ \E b \in 1..Len(suggested[3].suggested_bindings) :
         suggested[3].suggested_bindings[b].binding.xr_path
           = <<"user", "hand", "left", "input", "x", "click">>


\* The names of the actions created so far.
CreatedNames == { actions[i].name : i \in 1..Len(actions) }

C5_StateOrder ==
    /\ (profile_idx > 0 \/ suggested # <<>>) =>
         (Len(actions) = 7 /\ CreatedNames = { SevenActions[i] : i \in 1..7 })
    /\ (any_sync \/ query_calls > 0 \/ any_line \/ frames_yielded > 0) =>
         (Len(actions) = 7 /\ profile_idx = 5 /\ Len(suggested) = 5)
    /\ torn_down =>
         (pc = "done" /\ (loop_ended \/ raised \in {"create_action", "suggest_bindings"}))
    /\ pc = "done" => torn_down
    /\ raised # "none" => pc \in {"exit", "done"}

C5_StepOrder ==
    /\ (any_sync \/ frames_yielded > 0) => (actions' = actions /\ suggested' = suggested)
    /\ suggested # <<>> => actions' = actions
    /\ loop_ended =>
         UNCHANGED << frames_yielded, frames_handled, sync_calls, query_calls,
                      frame_lines, states, printed, any_sync, any_line >>
    /\ torn_down => UNCHANGED vars

\* C5: one linear order on every run: the seven actions are created before the
\* first binding suggestion, all five suggestions are made before the first frame,
\* sync_actions call or state query, nothing is created or suggested once polling
\* has started, and the context is torn down after the loop has ended (normally,
\* early, or by an escaping error), after which nothing happens.
C5_LinearOrder == [] C5_StateOrder /\ [][C5_StepOrder]_vars

\* C5 witness: torn down after a run that polled and printed and ended by the break.
C5_Witness ==
    /\ torn_down
    /\ raised = "none"
    /\ any_line
    /\ frame_index = 10

\* C6: the runtime's suggest call is made once per profile handled, in the order
\* khr, index, oculus, vive, wmr, with exactly the bindings the tables prescribe
\* for that profile, never with an empty list; all five calls have been made
\* when the header is printed.
C6_SuggestionsTranscribeTables ==
    /\ Len(suggested) = profile_idx
    /\ Len(suggested) <= 5
    /\ \A c \in 1..Len(suggested) :
         LET profile == <<"khr", "index", "oculus", "vive", "wmr">>[c]
         IN /\ suggested[c].interaction_profile = [xr_path |-> tables.PROFILES[profile]]
            /\ suggested[c].suggested_bindings = PrescribedBindings(tables, profile)
            /\ suggested[c].suggested_bindings # <<>>
    /\ pc \in {"header", "loop", "body", "sync", "poll", "printed", "sleep", "warn"} =>
         Len(suggested) = 5

\* C6 witness: the five calls are made; khr carries two bindings, oculus fourteen.
C6_Witness ==
    /\ pc = "loop"
    /\ Len(suggested) = 5
    /\ Len(suggested[1].suggested_bindings) = 2
    /\ Len(suggested[3].suggested_bindings) = 14
    /\ Len(suggested[4].suggested_bindings) = 6

\* C7: the eight tables keep exactly the entries they were built with, in every
\* state of creation, suggestion, polling and teardown.
C7_TablesNeverChange == tables = LoadedTables

\* C7 witness: the run has gone through suggestion, polling and teardown.
C7_Witness ==
    /\ pc = "done"
    /\ Len(suggested) = 5
    /\ any_line
    /\ tables.BUTTON_B_TOUCH_PATHS = BUTTON_B_TOUCH_PATHS_LITERAL

\* C8: the type passed to get_state is the type the action was created with, and
\* the query issued is the one for that type; get_state never falls through.
C8_PassedTypeIsCreatedType ==
    last_query # NoQuery =>
      /\ last_query.passed = last_query.created
      /\ last_query.query # "none"
      /\ last_query.query =
           (IF last_query.created = "FLOAT_INPUT" THEN "get_action_state_float"
            ELSE IF last_query.created = "BOOLEAN_INPUT" THEN "get_action_state_boolean"
            ELSE "get_action_state_vector2f")
      /\ last_query.created =
           (IF last_query.name \in {"trigger", "squeeze"} THEN "FLOAT_INPUT"
            ELSE IF last_query.name = "joystick" THEN "VECTOR2F_INPUT"
            ELSE "BOOLEAN_INPUT")

\* C8 witness: squeeze, created as a float action, has been queried as a float.
C8_Witness ==
    /\ last_query.name = "squeeze"
    /\ last_query.created = "FLOAT_INPUT"
    /\ last_query.query = "get_action_state_float"
    /\ ~last_query.error

\* C9: no sync_actions call, state query or state line in a frame that is not
\* FOCUSED; in a FOCUSED frame one sync_actions call, made before every state
\* query, then the LEFT line and the RIGHT line, each with one entry per action.
C9_PollOnlyWhenFocused ==
    /\ (InFrame /\ session_state # "FOCUSED") =>
         (sync_calls = 0 /\ query_calls = 0 /\ frame_lines = <<>> /\ pc \in {"body", "sleep"})
    /\ pc \in {"poll", "printed"} => (session_state = "FOCUSED" /\ sync_calls = 1)
    /\ query_calls > 0 => sync_calls = 1
    /\ sync_calls <= 1
    /\ pc = "sync" => (sync_calls = 0 /\ query_calls = 0 /\ frame_lines = <<>>)
    /\ pc = "poll" =>
         (query_calls = 7 * hand_idx + Len(states) /\ frame_lines = SubSeq(<<"LEFT", "RIGHT">>, 1, hand_idx))
    /\ pc = "printed" =>
         /\ printed.hand = <<"LEFT", "RIGHT">>[hand_idx + 1]
         /\ frame_lines = SubSeq(<<"LEFT", "RIGHT">>, 1, hand_idx + 1)
         /\ Len(printed.entries) = 7
         /\ \A i \in 1..7 : printed.entries[i].name = SevenActions[i]
    /\ (pc = "sleep" /\ session_state = "FOCUSED") =>
         (sync_calls = 1 /\ query_calls = 14 /\ frame_lines = <<"LEFT", "RIGHT">>)

\* C9 witness: the second frame, FOCUSED, at its sleep, with both lines printed.
C9_Witness ==
    /\ pc = "sleep"
    /\ session_state = "FOCUSED"
    /\ frame_index = 1
    /\ sync_calls = 1
    /\ query_calls = 14
    /\ frame_lines = <<"LEFT", "RIGHT">>

\* C10: after a normal end of the loop the warning is printed exactly when no
\* handled frame was FOCUSED, that is, exactly when no sync_actions call and no
\* state line was made.
C10_WarningIffNeverFocused ==
    (pc \in {"exit", "done"} /\ raised = "none") =>
      /\ warning_printed <=> ~focused_seen
      /\ warning_printed <=> (~any_sync /\ ~any_line)
      /\ ~warning_printed <=> (any_sync /\ any_line)

\* C10 witness: the loop broke after eleven frames none of which was FOCUSED,
\* and the warning is printed.
C10_Witness ==
    /\ pc = "done"
    /\ raised = "none"
    /\ warning_printed
    /\ frames_handled = 11
    /\ ~focused_seen

====
